---- MODULE Spec2Model ----
(***************************************************************************)
(* Lease management of the Pub/Sub subscriber                              *)
(* (src/pubsub/src/subscriber/lease.rs): the lease policy                   *)
(* (LeaseExtensionSetting), the deadlines tracker (DeadlinesTracker) and    *)
(* the extension scheduler the design describes around them; and the       *)
(* conversion of a Spanner key range to its wire form                      *)
(* (src/spanner/src/key.rs).                                               *)
(*                                                                         *)
(* Durations and instants are whole seconds (std::time::Duration is         *)
(* unsigned, so a duration is a natural number).  Option<T> is a record     *)
(* [some, v].                                                              *)
(***************************************************************************)
EXTENDS Integers, FiniteSets, Sequences, TLC

VARIABLES
    setting,        \* DeadlinesTracker.setting
    exactly_once,   \* DeadlinesTracker.exactly_once
    deadlines,      \* DeadlinesTracker.deadlines: the entries of the HashMap
    now,            \* the monotonic clock read by Instant::now()
    ret,            \* the last tracker call: its entry before, its result
    acked,          \* the ids done() removed since they were last registered
    next_due,       \* per id, the instant of its next extension
    state,          \* the scheduler's state
    batch,          \* the ids of the extension call in flight
    batch_at,       \* the instant the call in flight was issued at
    extended,       \* the ids extended since they were last registered
    candidate,      \* the latency estimate handed to bounded_duration
    duration,       \* the duration bounded_duration returned
    rebounded,      \* bounded_duration applied to its own result
    pstep,          \* the position of the policy or key-range computation
    key_range,      \* a KeyRange
    wire            \* the InternalKeyRange it was converted to

vars == <<setting, exactly_once, deadlines, now, ret, acked, next_due, state,
          batch, batch_at, extended, candidate, duration, rebounded, pstep,
          key_range, wire>>

\* ------------------------------------------------------------------ bounds

\* Candidate durations range over 0..MaxCandidate seconds.
MaxCandidate == 610

\* A key has at most MaxKeyLen components.
MaxKeyLen == 2

\* The clock stops advancing at MaxTime seconds.
MaxTime == 30

\* One step of the clock, in seconds.
TickSecs == 10

\* ------------------------------------------------------------------ values

None == [some |-> FALSE, v |-> 0]

\* Option<Deadline>::None
NoDeadline == [some |-> FALSE, v |-> [start |-> 0, max |-> 0]]

Some(x) == [some |-> TRUE, v |-> x]

Min(a, b) == IF a <= b THEN a ELSE b

Max(a, b) == IF a >= b THEN a ELSE b

Ids == {"m1", "m2"}

\* ------------------------------------------------- LeaseExtensionSetting

MAX_DURATION_PER_LEASE_EXTENSION == 600

MIN_DURATION_PER_LEASE_EXTENSION == 10

MIN_DURATION_PER_LEASE_EXTENSION_EXACTLY_ONCE == 60

\* The floor applied after the explicit one is added to the candidate
\* instead of bounding it from below.
bounded_duration_AddsFloor(s, ack_deadline, eo) ==
    LET capped == IF s.max_extension_period.some
                  THEN Min(ack_deadline, s.max_extension_period.v)
                  ELSE ack_deadline
    IN  IF s.min_extension_period.some
        THEN capped + s.min_extension_period.v
        ELSE IF eo
        THEN capped + MIN_DURATION_PER_LEASE_EXTENSION_EXACTLY_ONCE
        ELSE capped + MIN_DURATION_PER_LEASE_EXTENSION

\* The floor is applied first and the cap second.
bounded_duration_CapLast(s, ack_deadline, eo) ==
    LET floored == IF s.min_extension_period.some
                   THEN Max(ack_deadline, s.min_extension_period.v)
                   ELSE IF eo
                   THEN Max(ack_deadline, MIN_DURATION_PER_LEASE_EXTENSION_EXACTLY_ONCE)
                   ELSE Max(ack_deadline, MIN_DURATION_PER_LEASE_EXTENSION)
    IN  IF s.max_extension_period.some
        THEN Min(floored, s.max_extension_period.v)
        ELSE floored

\* The exactly-once floor is tested before the explicit minimum.
bounded_duration_ExactlyOnceFirst(s, ack_deadline, eo) ==
    LET capped == IF s.max_extension_period.some
                  THEN Min(ack_deadline, s.max_extension_period.v)
                  ELSE ack_deadline
    IN  IF eo
        THEN Max(capped, MIN_DURATION_PER_LEASE_EXTENSION_EXACTLY_ONCE)
        ELSE IF s.min_extension_period.some
        THEN Max(capped, s.min_extension_period.v)
        ELSE Max(capped, MIN_DURATION_PER_LEASE_EXTENSION)

\* LeaseExtensionSetting::bounded_duration(&self, ack_deadline, exactly_once)
bounded_duration(s, ack_deadline, eo) ==
    LET capped == IF s.max_extension_period.some
                  THEN Min(ack_deadline, s.max_extension_period.v)
                  ELSE ack_deadline
    IN  IF s.min_extension_period.some
        THEN Max(capped, s.min_extension_period.v)
        ELSE IF eo
        THEN Max(capped, MIN_DURATION_PER_LEASE_EXTENSION_EXACTLY_ONCE)
        ELSE Max(capped, MIN_DURATION_PER_LEASE_EXTENSION)

\* Default::default().max_extension: 60 minutes.
DEFAULT_MAX_EXTENSION == 3600

\* The ceiling is twice max_extension after the start.
new_deadline_DoubleMax(s, start) ==
    [start |-> start, max |-> start + 2 * s.max_extension]

\* The ceiling is taken from the default setting, not from this one.
new_deadline_DefaultMax(s, start) ==
    [start |-> start, max |-> start + DEFAULT_MAX_EXTENSION]

\* LeaseExtensionSetting::new_deadline(&self, start)
new_deadline(s, start) == [start |-> start, max |-> start + s.max_extension]

\* The values a per-call bound takes: unset, zero, below, inside and above
\* the range [10s, 600s] the documentation asks for.
PeriodOptions == {None} \cup {Some(p) : p \in {0, 5, 30, 60, 600, 605}}

\* The settings the policy is explored under.
PolicySettings ==
    [max_extension : {0, 3600},
     max_extension_period : PeriodOptions,
     min_extension_period : PeriodOptions]

\* ------------------------------------------------------- DeadlinesTracker

\* HashMap::new(): no entry.
NoEntries == {}

\* The keys of the map.
Tracked(m) == {e.ack_id : e \in m}

\* HashMap::get
HashMapGet(m, k) ==
    IF k \in Tracked(m)
    THEN Some((CHOOSE e \in m : e.ack_id = k).deadline)
    ELSE NoDeadline

\* The new entry is added beside the one the key already has.
HashMapInsert_KeepsOld(m, k, v) == m \cup {[ack_id |-> k, deadline |-> v]}

\* The new entry replaces the whole map.
HashMapInsert_Clears(m, k, v) == {[ack_id |-> k, deadline |-> v]}

\* HashMap::insert: the key's entry is replaced.
HashMapInsert(m, k, v) ==
    {e \in m : e.ack_id # k} \cup {[ack_id |-> k, deadline |-> v]}

\* The entries of the other keys are removed instead of the key's.
HashMapRemove_RemovesOthers(m, k) ==
    [map |-> {e \in m : e.ack_id = k}, value |-> HashMapGet(m, k)]

\* HashMap::remove: the key's entry is removed and its value returned.
HashMapRemove(m, k) ==
    [map |-> {e \in m : e.ack_id # k}, value |-> HashMapGet(m, k)]

\* DeadlinesTracker::new(setting, exactly_once): no configuration is refused.
\* The struct literal names no `deadlines`; the map starts empty.
new(s, eo) == [setting |-> s, exactly_once |-> eo, deadlines |-> NoEntries]

\* DeadlinesTracker::register(&mut self, ack_id), start being Instant::now()
register(m, s, ack_id, start) ==
    LET deadline == new_deadline(s, start)
    IN  [map |-> HashMapInsert(m, ack_id, deadline), value |-> deadline]

\* The state is looked up and returned, and stays in the map.
done_KeepsEntry(m, ack_id) == [map |-> m, value |-> HashMapGet(m, ack_id)]

\* DeadlinesTracker::done(&mut self, ack_id)
done(m, ack_id) == HashMapRemove(m, ack_id)

\* ------------------------------------------------------- KeyRange (key.rs)

\* The values a key component takes.
KeyComponents == {"Bob", "2015-01-01"}

\* Sequences of key components of length 0..MaxKeyLen.
ComponentLists ==
    UNION {[1..n -> KeyComponents] : n \in 0..MaxKeyLen}

\* Key::new(values): each component wrapped as Value { kind: Some(x) }.
Key_new(values) ==
    [values |-> [i \in 1..Len(values) |-> [kind |-> Some(values[i])]]]

Keys == {Key_new(values) : values \in ComponentLists}

\* enum RangeKind
RangeKinds == {"ClosedOpen", "ClosedClosed", "OpenClosed", "OpenOpen"}

\* KeyRange::new(start, end, kind)
KeyRange_new(start, end, kind) == [start |-> start, end |-> end, kind |-> kind]

\* Option<StartKeyType>::None, Option<EndKeyType>::None
NoKeyType == [some |-> FALSE, v |-> [type |-> "", values |-> <<>>]]

\* No key range: nothing was built or converted.
NoKeyRange == KeyRange_new(Key_new(<<>>), Key_new(<<>>), "ClosedOpen")

NoWire == [start_key_type |-> NoKeyType, end_key_type |-> NoKeyType]

\* OpenClosed is encoded with the arms of ClosedOpen.
InternalKeyRange_from_OpenClosedAsClosedOpen(kr) ==
    [start_key_type |->
        Some([type |-> IF kr.kind \in {"OpenOpen"}
                       THEN "StartOpen" ELSE "StartClosed",
              values |-> kr.start.values]),
     end_key_type |->
        Some([type |-> IF kr.kind \in {"ClosedClosed"}
                       THEN "EndClosed" ELSE "EndOpen",
              values |-> kr.end.values])]

\* impl From<KeyRange> for InternalKeyRange
InternalKeyRange_from(kr) ==
    CASE kr.kind = "ClosedClosed" ->
           [start_key_type |->
               Some([type |-> "StartClosed", values |-> kr.start.values]),
            end_key_type |->
               Some([type |-> "EndClosed", values |-> kr.end.values])]
      [] kr.kind = "ClosedOpen" ->
           [start_key_type |->
               Some([type |-> "StartClosed", values |-> kr.start.values]),
            end_key_type |->
               Some([type |-> "EndOpen", values |-> kr.end.values])]
      [] kr.kind = "OpenClosed" ->
           [start_key_type |->
               Some([type |-> "StartOpen", values |-> kr.start.values]),
            end_key_type |->
               Some([type |-> "EndClosed", values |-> kr.end.values])]
      [] kr.kind = "OpenOpen" ->
           [start_key_type |->
               Some([type |-> "StartOpen", values |-> kr.start.values]),
            end_key_type |->
               Some([type |-> "EndOpen", values |-> kr.end.values])]

\* LeaseExtensionSetting::default()
LeaseExtensionSetting_default ==
    [max_extension |-> DEFAULT_MAX_EXTENSION,
     max_extension_period |-> None,
     min_extension_period |-> None]

\* ------------------------------------------------------- the policy alone

\* No tracker call was made yet.
NoCall == [op |-> "new", ack_id |-> "", old |-> NoDeadline, value |-> NoDeadline]

PolicyInit ==
    /\ \E s \in PolicySettings, eo \in BOOLEAN :
          LET tracker == new(s, eo)
          IN  /\ setting = tracker.setting
              /\ exactly_once = tracker.exactly_once
              /\ deadlines = tracker.deadlines
    /\ candidate \in 0..MaxCandidate
    /\ duration = 0
    /\ rebounded = 0
    /\ pstep = "input"
    /\ now = 0
    /\ ret = NoCall
    /\ acked = {}
    /\ next_due = [i \in Ids |-> 0]
    /\ state = "Idle"
    /\ batch = {}
    /\ batch_at = 0
    /\ extended = {}
    /\ key_range = NoKeyRange
    /\ wire = NoWire

\* The scheduler's call duration = bounded_duration(candidate, exactly_once).
Bound ==
    /\ pstep = "input"
    /\ duration' = bounded_duration(setting, candidate, exactly_once)
    /\ pstep' = "bounded"
    /\ UNCHANGED <<key_range, wire, setting, exactly_once, deadlines, now, ret, acked, next_due,
                   state, batch, batch_at, extended, candidate, rebounded>>

\* The result handed to bounded_duration again.
Rebound ==
    /\ pstep = "bounded"
    /\ rebounded' = bounded_duration(setting, duration, exactly_once)
    /\ pstep' = "rebounded"
    /\ UNCHANGED <<key_range, wire, setting, exactly_once, deadlines, now, ret, acked, next_due,
                   state, batch, batch_at, extended, candidate, duration>>

PolicyNext == Bound \/ Rebound

PolicySpec == PolicyInit /\ [][PolicyNext]_vars

\* ------------------------------------------- the tracker and the scheduler

\* The settings the tracker is explored under: automatic extension off
\* (max_extension = 0) or 30s, each per-call bound unset or set.
TrackerSettings ==
    {[max_extension |-> m, max_extension_period |-> p[1],
      min_extension_period |-> p[2]] :
        m \in {0, 30}, p \in {<<None, None>>, <<Some(10), Some(20)>>}}

\* The latency estimates the scheduler hands to bounded_duration.
Estimates == {5}

\* The lease state of a tracked id.
DeadlineOf(m, id) == HashMapGet(m, id).v

\* due_before(instant): the tracked ids due at `instant` whose ceiling is
\* still ahead of the clock.
due_before(m, nd, instant, clock) ==
    {id \in Tracked(m) : nd[id] <= instant /\ DeadlineOf(m, id).max > clock}

\* advance(id, new_next_due): a no-op for an id that is not tracked.
advance(m, nd, id, t) ==
    IF id \in Tracked(m) THEN [nd EXCEPT ![id] = t] ELSE nd

Init ==
    /\ \E s \in TrackerSettings, eo \in BOOLEAN :
          LET tracker == new(s, eo)
          IN  /\ setting = tracker.setting
              /\ exactly_once = tracker.exactly_once
              /\ deadlines = tracker.deadlines
    /\ candidate \in Estimates
    /\ duration = 0
    /\ rebounded = 0
    /\ pstep = "input"
    /\ now = 0
    /\ ret = NoCall
    /\ acked = {}
    /\ next_due = [i \in Ids |-> 0]
    /\ state = "Idle"
    /\ batch = {}
    /\ batch_at = 0
    /\ extended = {}
    /\ key_range = NoKeyRange
    /\ wire = NoWire

\* The clock advances.
Tick ==
    /\ now < MaxTime
    /\ now' = now + TickSecs
    /\ UNCHANGED <<key_range, wire, setting, exactly_once, deadlines, ret, acked, next_due, state,
                   batch, batch_at, extended, candidate, duration, rebounded,
                   pstep>>

\* A message is received: register(ack_id).  Its first extension is due one
\* bounded duration after its receipt.
Register(id) ==
    LET r == register(deadlines, setting, id, now)
    IN  /\ deadlines' = r.map
        /\ ret' = [op |-> "register", ack_id |-> id,
                   old |-> HashMapGet(deadlines, id), value |-> Some(r.value)]
        /\ acked' = acked \ {id}
        /\ next_due' = [next_due EXCEPT
               ![id] = now + bounded_duration(setting, candidate, exactly_once)]
        /\ extended' = extended \ {id}
        /\ UNCHANGED <<key_range, wire, setting, exactly_once, now, state, batch, batch_at,
                       candidate, duration, rebounded, pstep>>

\* The application acks or nacks a message: done(ack_id).
Done(id) ==
    LET r == done(deadlines, id)
    IN  /\ deadlines' = r.map
        /\ ret' = [op |-> "done", ack_id |-> id,
                   old |-> HashMapGet(deadlines, id), value |-> r.value]
        /\ acked' = IF r.value.some THEN acked \cup {id} ELSE acked
        /\ next_due' = [next_due EXCEPT ![id] = 0]
        /\ UNCHANGED <<key_range, wire, setting, exactly_once, now, state, batch, batch_at,
                       extended, candidate, duration, rebounded, pstep>>

\* Idle -> Waiting: the tracker is not empty.
Arm ==
    /\ state = "Idle"
    /\ deadlines # NoEntries
    /\ state' = "Waiting"
    /\ UNCHANGED <<key_range, wire, setting, exactly_once, deadlines, now, ret, acked, next_due,
                   batch, batch_at, extended, candidate, duration, rebounded,
                   pstep>>

\* The wake-up also fires after the shutdown.
Wake_AfterShutdown ==
    /\ state \in {"Waiting", "Stopped"}
    /\ due_before(deadlines, next_due, now, now) # {}
    /\ state' = "Extending"
    /\ batch' = due_before(deadlines, next_due, now, now)
    /\ batch_at' = now
    /\ duration' = bounded_duration(setting, candidate, exactly_once)
    /\ extended' = extended \cup batch'
    /\ UNCHANGED <<key_range, wire, setting, exactly_once, deadlines, now, ret, acked, next_due,
                   candidate, rebounded, pstep>>

\* Waiting -> Extending: the wake time is reached; the ids due are
\* snapshotted and one extension call is issued for them.
Wake ==
    /\ state = "Waiting"
    /\ due_before(deadlines, next_due, now, now) # {}
    /\ state' = "Extending"
    /\ batch' = due_before(deadlines, next_due, now, now)
    /\ batch_at' = now
    /\ duration' = bounded_duration(setting, candidate, exactly_once)
    /\ extended' = extended \cup batch'
    /\ UNCHANGED <<key_range, wire, setting, exactly_once, deadlines, now, ret, acked, next_due,
                   candidate, rebounded, pstep>>

\* The ids of the batch the successful call drops: those the broker
\* rejected and those whose next due time would exceed their ceiling.
Dropped(rejected) ==
    {id \in batch \cap Tracked(deadlines) :
        \/ id \in rejected
        \/ batch_at + duration > DeadlineOf(deadlines, id).max}

\* Extending -> Waiting: the call succeeded, the broker rejecting `rejected`.
Succeed(rejected) ==
    /\ state = "Extending"
    /\ rejected \subseteq batch
    /\ deadlines' = {e \in deadlines : e.ack_id \notin Dropped(rejected)}
    /\ next_due' = [i \in Ids |->
           IF i \in Dropped(rejected) THEN 0
           ELSE IF i \in batch
           THEN advance(deadlines, next_due, i, batch_at + duration)[i]
           ELSE next_due[i]]
    /\ state' = IF deadlines' = NoEntries THEN "Idle" ELSE "Waiting"
    /\ batch' = {}
    /\ batch_at' = 0
    /\ duration' = 0
    /\ UNCHANGED <<key_range, wire, setting, exactly_once, now, ret, acked, extended, candidate,
                   rebounded, pstep>>

\* Extending -> Waiting: the call failed in transport; nothing is removed.
Fail ==
    /\ state = "Extending"
    /\ state' = IF deadlines = NoEntries THEN "Idle" ELSE "Waiting"
    /\ batch' = {}
    /\ batch_at' = 0
    /\ duration' = 0
    /\ UNCHANGED <<key_range, wire, setting, exactly_once, deadlines, now, ret, acked, next_due,
                   extended, candidate, rebounded, pstep>>

\* Any state -> Stopped: the subscriber shuts down; the result of a call in
\* flight is discarded.
Shutdown ==
    /\ state # "Stopped"
    /\ state' = "Stopped"
    /\ batch' = {}
    /\ batch_at' = 0
    /\ duration' = 0
    /\ UNCHANGED <<key_range, wire, setting, exactly_once, deadlines, now, ret, acked, next_due,
                   extended, candidate, rebounded, pstep>>

Next ==
    \/ Tick
    \/ \E id \in Ids : Register(id)
    \/ \E id \in Ids : Done(id)
    \/ Arm
    \/ Wake
    \/ \E rejected \in SUBSET batch : Succeed(rejected)
    \/ Fail
    \/ Shutdown

Spec == Init /\ [][Next]_vars

\* ------------------------------------------------------- policy properties

\* The floor by precedence: the explicit minimum, else 60s with exactly-once
\* delivery, else 10s.
EffectiveFloor ==
    IF setting.min_extension_period.some
    THEN setting.min_extension_period.v
    ELSE IF exactly_once THEN 60 ELSE 10

\* The candidate after step 1, the cap.
Capped ==
    IF setting.max_extension_period.some
    THEN Min(candidate, setting.max_extension_period.v)
    ELSE candidate

C2_DefaultRange ==
    (/\ pstep = "bounded"
     /\ ~setting.max_extension_period.some
     /\ ~setting.min_extension_period.some) =>
        /\ duration >= 0
        /\ 10 <= duration
        /\ duration <= 600

\* C7: the floor/cap computation is idempotent: bounding the result again
\* returns the result.
C7_Idempotent == pstep = "rebounded" => rebounded = duration

\* The computation changed the candidate, and with the floor above the cap;
\* the result was bounded a second time.
C7_Witness ==
    /\ pstep = "rebounded"
    /\ duration # candidate
    /\ setting.max_extension_period.some
    /\ EffectiveFloor > setting.max_extension_period.v
    /\ rebounded = EffectiveFloor

Ceiling(m, id) == DeadlineOf(m, id).start + setting.max_extension

\* The instants a due_before query is made for.
Instants == 0..(MaxTime + TickSecs)

C4_ZeroExtension ==
    setting.max_extension <= 0 =>
        /\ extended = {}
        /\ batch = {}
        /\ state # "Extending"

\* With max_extension = 0 an id is tracked and past due, the scheduler
\* waits, and no extension call was issued.
C4_Witness ==
    /\ setting.max_extension = 0
    /\ state = "Waiting"
    /\ \E id \in Tracked(deadlines) : next_due[id] <= now
    /\ extended = {}

\* C5: done(id) is idempotent: on a tracked id it removes and returns the
\* state; an id done() removed stays untracked until it is registered
\* again, and done(id) on an untracked id returns None and leaves the
\* tracker unchanged.
C5_DoneIdempotent ==
    /\ [](acked \cap Tracked(deadlines) = {})
    /\ [][\A id \in Ids : Done(id) =>
             IF id \in Tracked(deadlines)
             THEN /\ ret'.value = Some(DeadlineOf(deadlines, id))
                  /\ deadlines' = {e \in deadlines : e.ack_id # id}
             ELSE /\ ret'.value = NoDeadline
                  /\ deadlines' = deadlines
                  /\ setting' = setting
                  /\ exactly_once' = exactly_once
        ]_vars

\* done(id) returned None for an id an earlier done(id) removed, no
\* register(id) between them.
C5_Witness ==
    /\ ret.op = "done"
    /\ ret.value = NoDeadline
    /\ ret.ack_id \in acked

\* C6: an id that done() removed, also right after its registration and
\* before any extension cycle, is not tracked, is in no due_before query
\* and in no extension call, unless it is registered again.
C6_DoneBeforeCycle ==
    /\ [](\A id \in acked :
            /\ id \notin Tracked(deadlines)
            /\ \A t \in Instants :
                  id \notin due_before(deadlines, next_due, t, now))
    /\ [][Wake => batch' \cap acked = {}]_vars

\* An id was registered and done before any extension was issued for it,
\* and a later extension cycle runs without it.
C6_Witness ==
    /\ ret.op = "done"
    /\ ret.value.some
    /\ ret.ack_id \in acked
    /\ ret.ack_id \notin extended
    /\ state = "Extending"
    /\ batch # {}
    /\ ret.ack_id \notin batch

\* A per-call bound is enabled when it is set to more than zero.
Enabled(period) == period.some /\ period.v > 0

\* An enabled bound lies in [10s, 600s], and the minimum is at most the
\* maximum.
ValidSetting(s) ==
    /\ Enabled(s.max_extension_period) =>
          (10 <= s.max_extension_period.v /\ s.max_extension_period.v <= 600)
    /\ Enabled(s.min_extension_period) =>
          (10 <= s.min_extension_period.v /\ s.min_extension_period.v <= 600)
    /\ (Enabled(s.max_extension_period) /\ Enabled(s.min_extension_period)) =>
          s.min_extension_period.v <= s.max_extension_period.v

\* C9: an invalid configuration creates no tracker: every constructed
\* tracker has its enabled bounds in [10s, 600s] and
\* min_extension_period <= max_extension_period.
C9_ValidAtConstruction == ValidSetting(setting)

\* C10: the tracker holds at most one lease state per id, and register(id)
\* leaves for id exactly the state it returns, whose start is the time of
\* this call, whether or not id was tracked.
C10_OneStatePerId ==
    /\ [](\A id \in Ids : Cardinality({e \in deadlines : e.ack_id = id}) <= 1)
    /\ [][\A id \in Ids : Register(id) =>
             /\ {e \in deadlines' : e.ack_id = id} =
                   {[ack_id |-> id,
                     deadline |-> [start |-> now,
                                   max |-> now + setting.max_extension]]}
             /\ ret'.value = Some([start |-> now,
                                   max |-> now + setting.max_extension])
        ]_vars

\* register(id) replaced the state of a tracked id by one with a later
\* start.
C10_Witness ==
    /\ ret.op = "register"
    /\ ret.old.some
    /\ ret.old.v.start < ret.value.v.start
    /\ ret.value.v.start = now
    /\ {e \in deadlines : e.ack_id = ret.ack_id} =
          {[ack_id |-> ret.ack_id, deadline |-> ret.value.v]}

\* ---------------------------------------------------- scheduler properties

\* C11: done(id) takes precedence over the extension pass: the result of an
\* extension call that arrives after done(id) removed the id neither
\* re-inserts the id nor advances its next_due, and the pass goes on.
C11_DoneTakesPrecedence ==
    /\ [](acked \cap Tracked(deadlines) = {} /\ \A id \in acked : next_due[id] = 0)
    /\ [][\A rejected \in SUBSET batch : Succeed(rejected) =>
             /\ \A id \in batch \cap acked :
                   /\ id \notin Tracked(deadlines')
                   /\ next_due'[id] = next_due[id]
             /\ state' \in {"Idle", "Waiting"}
        ]_vars

\* An extension call is in flight for an id that done() removed after the
\* call was issued.
C11_Witness ==
    /\ state = "Extending"
    /\ ret.op = "done"
    /\ ret.value.some
    /\ ret.ack_id \in batch \cap acked

\* C12: Stopped is terminal: the shutdown is possible in every other state
\* and leads to Stopped; once Stopped, no extension call is in flight or
\* issued and no other state is entered.
C12_StoppedIsTerminal ==
    /\ [](state # "Stopped" => ENABLED Shutdown)
    /\ [](state = "Stopped" => batch = {})
    /\ [][Shutdown => state' = "Stopped"]_vars
    /\ [][state = "Stopped" =>
             /\ state' = "Stopped"
             /\ batch' = {}
             /\ extended' \subseteq extended
        ]_vars

\* The scheduler is stopped while a tracked id is due before its ceiling.
C12_Witness ==
    /\ state = "Stopped"
    /\ due_before(deadlines, next_due, now, now) # {}

\* C13: the next_due the scheduler assigns to a lease state is never
\* earlier than the one it had and never later than the ceiling; an id
\* whose next_due would exceed the ceiling is dropped, not advanced.
C13_MonotoneUpToCeiling ==
    [][\A rejected \in SUBSET batch : Succeed(rejected) =>
          \A id \in (batch \cap Tracked(deadlines)) \ rejected :
             IF batch_at + duration <= Ceiling(deadlines, id)
             THEN /\ id \in Tracked(deadlines')
                  /\ next_due'[id] = batch_at + duration
                  /\ next_due'[id] <= Ceiling(deadlines', id)
                  /\ DeadlineOf(deadlines, id).start <= batch_at
                        => next_due'[id] >= next_due[id]
             ELSE id \notin Tracked(deadlines')
      ]_vars

\* An id was advanced step by step up to its ceiling: its next_due is the
\* ceiling, three bounded durations after its start.
C13_Witness ==
    \E id \in Tracked(deadlines) \cap extended :
        /\ next_due[id] = Ceiling(deadlines, id)
        /\ next_due[id] = DeadlineOf(deadlines, id).start
              + 3 * bounded_duration(setting, candidate, exactly_once)

\* ------------------------------------------- disabling the per-call bounds

\* The setting with max_extension_period unset.
WithoutMax(s) == [s EXCEPT !.max_extension_period = None]

\* The setting with min_extension_period unset.
WithoutMin(s) == [s EXCEPT !.min_extension_period = None]

\* C14: max_extension_period = Some(0) disables the cap: bounded_duration
\* returns what it returns with max_extension_period = None.
C14_ZeroMaxDisables ==
    (pstep = "bounded" /\ setting.max_extension_period = Some(0)) =>
        duration = bounded_duration(WithoutMax(setting), candidate, exactly_once)

\* C15: min_extension_period = Some(0) disables the explicit minimum:
\* bounded_duration returns what it returns with min_extension_period =
\* None, the default floor (10s, or 60s with exactly-once delivery) applied.
C15_ZeroMinDisables ==
    (pstep = "bounded" /\ setting.min_extension_period = Some(0)) =>
        /\ duration = bounded_duration(WithoutMin(setting), candidate, exactly_once)
        /\ duration >= (IF exactly_once THEN 60 ELSE 10)

C17_CeilingFromStart ==
    /\ [](\A e \in deadlines :
            /\ e.deadline.max = e.deadline.start + setting.max_extension
            /\ e.deadline.max >= e.deadline.start
            /\ e.deadline.start <= now)
    /\ [][\A id \in Ids : Register(id) =>
             /\ HashMapGet(deadlines', id).some
             /\ HashMapGet(deadlines', id).v.start = now
             /\ ret'.value = HashMapGet(deadlines', id)
             /\ setting' = setting
             /\ exactly_once' = exactly_once
        ]_vars

\* After a done call, a register call at a later clock value stored a state
\* whose ceiling lies max_extension > 0 after its start.
C17_Witness ==
    /\ acked # {}
    /\ ret.op = "register"
    /\ ret.value.v.start > 0
    /\ setting.max_extension > 0
    /\ HashMapGet(deadlines, ret.ack_id) = ret.value
    /\ ret.value.v.max = ret.value.v.start + setting.max_extension

C20_OnlyOwnEntry ==
    [][\A id \in Ids :
          /\ (Register(id) \/ Done(id)) =>
                /\ {e \in deadlines' : e.ack_id # id} =
                      {e \in deadlines : e.ack_id # id}
                /\ setting' = setting
                /\ exactly_once' = exactly_once
          /\ (Done(id) /\ id \notin Tracked(deadlines)) =>
                /\ deadlines' = deadlines
                /\ ret'.value = NoDeadline
      ]_vars

\* done(id) removed the state of a tracked id while another id, registered
\* earlier, is still tracked with its state.
C20_Witness ==
    /\ ret.op = "done"
    /\ ret.value.some
    /\ ret.ack_id \notin Tracked(deadlines)
    /\ \E e \in deadlines :
          /\ e.ack_id # ret.ack_id
          /\ e.deadline.start < ret.value.v.start

\* ------------------------------------------------------ the key range alone

KeyInit ==
    /\ \E start \in Keys, end \in Keys, kind \in RangeKinds :
          key_range = KeyRange_new(start, end, kind)
    /\ wire = NoWire
    /\ pstep = "input"
    /\ LET tracker == new(LeaseExtensionSetting_default, FALSE)
       IN  /\ setting = tracker.setting
           /\ exactly_once = tracker.exactly_once
           /\ deadlines = tracker.deadlines
    /\ candidate = 0
    /\ duration = 0
    /\ rebounded = 0
    /\ now = 0
    /\ ret = NoCall
    /\ acked = {}
    /\ next_due = [i \in Ids |-> 0]
    /\ state = "Idle"
    /\ batch = {}
    /\ batch_at = 0
    /\ extended = {}

\* key_range.into(): the range is converted to its wire form.
Convert ==
    /\ pstep = "input"
    /\ wire' = InternalKeyRange_from(key_range)
    /\ pstep' = "converted"
    /\ UNCHANGED <<key_range, setting, exactly_once, deadlines, now, ret, acked,
                   next_due, state, batch, batch_at, extended, candidate,
                   duration, rebounded>>

\* Key::to_prefix(): the range of all keys the start key is a prefix of.
ToPrefix ==
    /\ pstep = "input"
    /\ key_range' = KeyRange_new(key_range.start, key_range.start, "ClosedClosed")
    /\ UNCHANGED <<wire, pstep, setting, exactly_once, deadlines, now, ret,
                   acked, next_due, state, batch, batch_at, extended, candidate,
                   duration, rebounded>>

KeyNext == Convert \/ ToPrefix

KeySpec == KeyInit /\ [][KeyNext]_vars

\* ----------------------------------------------------- key range properties

\* C16: the wire key range keeps both keys and encodes the kind exactly:
\* the start key is closed for ClosedOpen and ClosedClosed and open for
\* OpenClosed and OpenOpen, the end key is closed for ClosedClosed and
\* OpenClosed and open for ClosedOpen and OpenOpen; the start value is the
\* range's start key and the end value its end key.
C16_RangeKindEncoded ==
    pstep = "converted" =>
        /\ wire.start_key_type.some
        /\ wire.end_key_type.some
        /\ wire.start_key_type.v.type =
              (IF key_range.kind \in {"ClosedOpen", "ClosedClosed"}
               THEN "StartClosed" ELSE "StartOpen")
        /\ wire.end_key_type.v.type =
              (IF key_range.kind \in {"ClosedClosed", "OpenClosed"}
               THEN "EndClosed" ELSE "EndOpen")
        /\ wire.start_key_type.v.values = key_range.start.values
        /\ wire.end_key_type.v.values = key_range.end.values

\* An OpenClosed range with different keys was converted: its start is
\* open, its end closed, the keys in place.
C16_Witness ==
    /\ pstep = "converted"
    /\ key_range.kind = "OpenClosed"
    /\ key_range.start # key_range.end
    /\ wire.start_key_type.v.type = "StartOpen"
    /\ wire.end_key_type.v.type = "EndClosed"
    /\ wire.start_key_type.v.values = key_range.start.values
    /\ wire.end_key_type.v.values = key_range.end.values

====
